---- MODULE Spec2Model ----
(***************************************************************************)
(* Model of src/factory.ts: createPass, getModelContents,                  *)
(* getModelFolderContents, getModelBufferContents,                         *)
(* readCertificatesFromOptions and parsePEM.                               *)
(*                                                                         *)
(* Strings are sequences of one-character strings, so that includes(),     *)
(* toLowerCase(), path.extname() and path.parse().base are computed and    *)
(* not assumed.  Objects are functions from keys to values.  Every await   *)
(* on an I/O request is a point where another completion may be scheduled. *)
(***************************************************************************)
EXTENDS Integers, Sequences, FiniteSets, TLC

\* ------------------------------------------------------------------ bounds

\* Largest number of directory entries, over the model directory and its
\* localization folders together, of the file systems explored.
MaxNodes == 5

\* ----------------------------------------------------------------- strings

UpperAlpha ==
  <<"A","B","C","D","E","F","G","H","I","J","K","L","M",
    "N","O","P","Q","R","S","T","U","V","W","X","Y","Z">>

LowerAlpha ==
  <<"a","b","c","d","e","f","g","h","i","j","k","l","m",
    "n","o","p","q","r","s","t","u","v","w","x","y","z">>

LowerOf ==
  [c \in {UpperAlpha[i] : i \in 1..Len(UpperAlpha)} |->
     LowerAlpha[CHOOSE i \in 1..Len(UpperAlpha) : UpperAlpha[i] = c]]

LowerChar(c) == IF c \in DOMAIN LowerOf THEN LowerOf[c] ELSE c

\* String.prototype.toLowerCase
ToLowerCase(s) == [i \in 1..Len(s) |-> LowerChar(s[i])]

\* String.prototype.includes
Includes(s, sub) ==
  \E i \in 1..(Len(s) - Len(sub) + 1) : SubSeq(s, i, i + Len(sub) - 1) = sub

\* Position of the last occurrence of character c in s, 0 when there is none.
LastIndexOf(s, c) ==
  IF \E i \in 1..Len(s) : s[i] = c
  THEN CHOOSE i \in 1..Len(s) :
         s[i] = c /\ \A j \in (i + 1)..Len(s) : s[j] # c
  ELSE 0

\* path.parse(p).base / path.basename(p): what follows the last separator.
BaseName(p) == SubSeq(p, LastIndexOf(p, "/") + 1, Len(p))

\* path.extname(p): from the last dot of the base name, unless that dot is
\* the first character of the base name or there is none.
ExtName(p) ==
  LET b == BaseName(p)
      d == LastIndexOf(b, ".")
  IN  IF d <= 1 THEN <<>> ELSE SubSeq(b, d, Len(b))

\* path.parse(p).name: the base name without its extension.
ParsedName(p) ==
  LET b == BaseName(p)
  IN  SubSeq(b, 1, Len(b) - Len(ExtName(p)))

\* The working directory every relative path is resolved against.
Cwd == <<"/","w">>

\* path.resolve(p) and path.resolve(dir, p), path.join(dir, p) for the
\* relative, already normalized names used here.
Resolve(p) == IF Len(p) > 0 /\ p[1] = "/" THEN p ELSE Cwd \o <<"/">> \o p

Join(dir, p) == dir \o <<"/">> \o p

\* The literal names the source tests for.
S_icon      == <<"i","c","o","n">>
S_lproj     == <<".","l","p","r","o","j">>
S_manifest  == <<"m","a","n","i","f","e","s","t">>
S_signature == <<"s","i","g","n","a","t","u","r","e">>
S_pass_json == <<"p","a","s","s",".","j","s","o","n">>
S_dot_pass  == <<".","p","a","s","s">>
S_Buffers   == <<"B","u","f","f","e","r","s">>

\* --------------------------------------------------------------- JS values

\* A JavaScript value carries its typeof: undefined, a string (a sequence of
\* characters) or an object.  An object keeps the insertion order of its
\* keys (Object.keys) next to its properties.
Undefined == [type |-> "undefined"]

Str(s) == [type |-> "string", v |-> s]

Obj(keys, at) == [type |-> "object", keys |-> keys, at |-> at]

EmptyObj == Obj(<<>>, <<>>)

TypeOf(x) == x.type

\* Object.keys(x)
ObjectKeys(x) == x.keys

\* x[k], undefined when x has no such property
Prop(x, k) ==
  IF TypeOf(x) = "object" /\ k \in DOMAIN x.at THEN x.at[k] ELSE Undefined

\* Truthiness of the three kinds of value used here.
Truthy(x) ==
  CASE TypeOf(x) = "undefined" -> FALSE
    [] TypeOf(x) = "string"    -> Len(x.v) # 0
    [] OTHER                   -> TRUE

\* The set of elements of a sequence.
Range(s) == {s[i] : i \in 1..Len(s)}

\* Array.prototype.indexOf, 1-based, 0 when absent.
IndexOf(s, x) ==
  IF x \in Range(s) THEN CHOOSE i \in 1..Len(s) :
                          s[i] = x /\ \A j \in 1..(i - 1) : s[j] # x
  ELSE 0

\* ------------------------------------------------------------------ errors

\* new Error(formatMessage(key, arg))
DomainError(key, arg) ==
  [kind |-> "error", name |-> key, arg |-> arg, code |-> "", syscall |-> ""]

\* An error object of node's fs module: it has code, syscall and path (arg).
FsError(code, syscall, path) ==
  [kind |-> "error", name |-> "FsError", arg |-> path, code |-> code,
   syscall |-> syscall]

\* A language-level exception (TypeError, ReferenceError) or an exception of
\* the PEM library: an Error with neither code nor path.
Thrown(class) == DomainError(class, <<>>)

Ok(value) == [kind |-> "ok", value |-> value]

Pending == [kind |-> "pending"]

IsError(r) == r.kind = "error"

IsOk(r) == r.kind = "ok"

IsFsError(r) == IsError(r) /\ r.name = "FsError"

\* ------------------------------------------- getModelFolderContents: pure

\* utils.removeHidden: drops the names that begin with a dot.
RemoveHidden(list) == SelectSeq(list, LAMBDA f : ~(Len(f) > 0 /\ f[1] = "."))

\* /(manifest|signature)/i.test(f)
TestManifestSignatureI(f) ==
  \/ Includes(ToLowerCase(f), S_manifest)
  \/ Includes(ToLowerCase(f), S_signature)

\* /(manifest|signature)/.test(f)
TestManifestSignature(f) ==
  \/ Includes(f, S_manifest)
  \/ Includes(f, S_signature)

\* path.resolve(model) + (!!model && !path.extname(model) ? ".pass" : "")
ModelPath(model) ==
  Resolve(model) \o
    (IF Len(model) # 0 /\ ExtName(model) = <<>> THEN S_dot_pass ELSE <<>>)

\* removeHidden(modelFilesList).filter(f => !/(manifest|signature)/i.test(f))
FilteredFiles(modelFilesList) ==
  SelectSeq(RemoveHidden(modelFilesList),
            LAMBDA f : ~TestManifestSignatureI(f))

\* filteredFiles.length && filteredFiles.some(f => f.toLowerCase().includes("icon"))
IsModelInitialized(files) ==
  /\ Len(files) # 0
  /\ \E i \in 1..Len(files) : Includes(ToLowerCase(files[i]), S_icon)

RawBundle(files) == SelectSeq(files, LAMBDA e : ~Includes(e, S_lproj))

L10nFolders(files) == SelectSeq(files, LAMBDA e : Includes(e, S_lproj))

\* A join that hands out the results in the order the promises settled.
AwaitedAtArrival(results, arrival, index) == results[arrival[index]]

\* The value that slot `index` of the array awaited from Promise.all holds:
\* the result of the promise at that index, whatever the order `arrival`
\* in which the promises settled.
AwaitedAt(results, arrival, index) == results[index]

\* Object.assign({}, ...names.map((name, index) => ({ [name]: values[index] })))
\* : a later entry of the same name overwrites an earlier one.
AssignByIndex(names, results, arrival) ==
  [n \in Range(names) |->
     AwaitedAt(results, arrival,
               CHOOSE i \in 1..Len(names) :
                 names[i] = n /\ \A j \in (i + 1)..Len(names) : names[j] # n)]

\* LocaleReduce without the test that discards the empty buffers.
LocaleReduceKeepEmpty(validFiles, results, arrival) ==
  [f \in Range(validFiles) |->
     results[CHOOSE i \in 1..Len(validFiles) :
               validFiles[i] = f /\ \A j \in 1..Len(validFiles) :
                                      validFiles[j] = f => j <= i]]

\* validFiles.reduce((acc, file, index) =>
\*   !buffers[index].length ? acc : { ...acc, [file]: buffers[index] }, {})
LocaleReduce(validFiles, results, arrival) ==
  LET kept == {i \in 1..Len(validFiles) :
                 Len(AwaitedAt(results, arrival, i)) # 0}
  IN  [f \in {validFiles[i] : i \in kept} |->
         AwaitedAt(results, arrival,
                   CHOOSE i \in kept :
                     validFiles[i] = f /\ \A j \in kept : validFiles[j] = f => j <= i)]

\* The last element of err.path.split(/(\/|\\\?)/): what follows the last
\* "/" or the last backslash-question-mark pair.
SplitLast(p) ==
  LET ends == {i \in 1..Len(p) :
                 \/ p[i] = "/"
                 \/ (i > 1 /\ p[i - 1] = "\\" /\ p[i] = "?")}
      last == IF ends = {} THEN 0
              ELSE CHOOSE i \in ends : \A j \in ends : j <= i
  IN  SubSeq(p, last + 1, Len(p))

\* A catch block that rethrows whatever it caught.
CatchFolderErrorRethrow(err) == err

\* The catch block of getModelFolderContents.
CatchFolderError(err) ==
  IF IsFsError(err) /\ err.code = "ENOENT"
  THEN IF err.syscall = "open"
       THEN DomainError("MODELF_NOT_FOUND", err.arg)
       ELSE IF err.syscall = "scandir"
            THEN DomainError("MODELF_FILE_NOT_FOUND", SplitLast(err.arg))
            ELSE err
  ELSE err

\* The uninitialized-model branch: formatMessage's argument reads this.model
\* in a module-level function, where `this` is undefined, so evaluating the
\* argument throws a TypeError before any MODEL_UNINITIALIZED error exists;
\* the catch block rethrows it, as it has no code.
ThrowUninitializedFolder(model) == CatchFolderError(Thrown("TypeError"))

\* FinalGate without the two length tests.
FinalGateNamesOnly(bundle) ==
  /\ S_pass_json \in DOMAIN bundle
  /\ \E file \in DOMAIN bundle : Includes(file, S_icon)

\* The final check of getModelContents on the bundle it is about to return.
FinalGate(bundle) ==
  /\ S_pass_json \in DOMAIN bundle
  /\ Len(bundle[S_pass_json]) # 0
  /\ \E file \in DOMAIN bundle :
       Includes(file, S_icon) /\ Len(bundle[file]) # 0

\* getModelContents after the PartitionedBundle is known.
GateResult(contents) ==
  IF FinalGate(contents.bundle)
  THEN Ok(contents)
  ELSE DomainError("missing icon or pass.json", <<>>)

\* !(model && (typeof model === "string" ||
\*             (typeof model === "object" && Object.keys(model).length)))
IsModelValid(model) ==
  /\ Truthy(model)
  /\ \/ TypeOf(model) = "string"
     \/ (TypeOf(model) = "object" /\ Len(ObjectKeys(model)) # 0)

\* ------------------------------------------------- getModelBufferContents

\* The reducer that builds rawBundle.  Its guard reads rawBundle[current]
\* while rawBundle is still being initialized: with a `const` emitted as is
\* the read is a ReferenceError (temporal dead zone), with it emitted as
\* `var` rawBundle is undefined and the property read is a TypeError.
\* `tdz` is the exception of the build at hand.  The guard is reached for
\* every key that the manifest/signature test lets through.
RECURSIVE BufferReduce(_, _, _, _, _)
BufferReduce(keys, model, index, acc, tdz) ==
  IF index > Len(keys)
  THEN Ok(acc)
  ELSE LET current == keys[index]
       IN  IF TestManifestSignature(current)
           THEN BufferReduce(keys, model, index + 1, acc, tdz)
           ELSE Thrown(tdz)

\* getModelBufferContents(model)
GetModelBufferContents(model, tdz) ==
  LET reduced == BufferReduce(RemoveHidden(ObjectKeys(model)), model, 1, <<>>, tdz)
  IN  IF IsError(reduced)
      THEN reduced
      ELSE LET rawBundle  == reduced.value
               bundleKeys == DOMAIN rawBundle
               initialized ==
                 /\ bundleKeys # {}
                 /\ \E file \in bundleKeys : Includes(ToLowerCase(file), S_icon)
           IN  IF ~initialized
               THEN DomainError("MODEL_UNINITIALIZED", S_Buffers)
               ELSE Ok([bundle |->
                          [f \in {k \in bundleKeys : ~Includes(k, S_lproj)} |->
                             rawBundle[f]],
                        l10nBundle |->
                          [f \in {k \in bundleKeys : Includes(k, S_lproj)} |->
                             rawBundle[f]]])

\* The exceptions a read inside the temporal dead zone can be.
TdzErrors == {"ReferenceError", "TypeError"}

\* ------------------------------------------------------- the file system

N_pass_json == S_pass_json
N_icon_png  == <<"i","c","o","n",".","p","n","g">>
N_Icon_png  == <<"I","c","o","n",".","p","n","g">>
N_hidden    == <<".","x">>
N_manifest  == <<"m","a","n","i","f","e","s","t",".","j","s","o","n">>
N_fr_lproj  == <<"f","r",".","l","p","r","o","j">>
N_en_lproj  == <<"e","n",".","l","p","r","o","j">>
N_strings   == <<"p","a","s","s",".","s","t","r","i","n","g","s">>
N_logo_png  == <<"l","o","g","o",".","p","n","g">>

\* The names a model directory may hold, in the order readdir reports them.
EntryUniverse ==
  <<N_Icon_png, N_en_lproj, N_fr_lproj, N_icon_png, N_manifest, N_pass_json,
    N_hidden>>

\* The names a localization folder may hold.
InnerUniverse == <<N_hidden, N_logo_png, N_strings>>

\* The sub-listings of a universe that hold at most max names.
Listings(universe, max) ==
  {SelectSeq(universe, LAMBDA n : n \in {universe[i] : i \in S}) :
     S \in {T \in SUBSET (1..Len(universe)) : Cardinality(T) <= max}}

\* What a readable, non-empty file holds: one block that names the file, so
\* that distinct files have distinct contents.
DataOf(path) == <<path>>

\* The result of fs.readFile(path) for each state the file can be in.
ReadFileOutcome(path, state) ==
  CASE state = "data"   -> Ok(DataOf(path))
    [] state = "empty"  -> Ok(<<>>)
    [] state = "ENOENT" -> FsError("ENOENT", "open", path)
    [] state = "EISDIR" -> FsError("EISDIR", "read", path)

\* The result of fs.readdir(path): a listing, or an error.
ReadDirOutcomes(path, listings, codes) ==
  {Ok(l) : l \in listings} \cup {FsError(c, "scandir", path) : c \in codes}

\* The file systems explored when the Source Normalizer is called on its
\* own: the names a directory may hold, the error codes a listing may fail
\* with, and the states a file may be in.
ModelEnv ==
  [entries     |-> EntryUniverse,
   dirCodes    |-> {"ENOENT", "ENOTDIR"},
   fileStates  |-> {"data", "empty", "ENOENT", "EISDIR"},
   inner       |-> InnerUniverse,
   innerCodes  |-> {"ENOENT", "ENOTDIR"},
   innerStates |-> {"data", "empty", "ENOENT"}]

S_Model      == <<"M">>
S_Model_pass == <<"M",".","p","a","s","s">>

ModelSources ==
  {Undefined, Str(<<>>), Str(S_Model), Str(S_Model_pass), EmptyObj}
  \cup {Obj(l, [n \in Range(l) |-> DataOf(n)]) :
          l \in {<<N_pass_json, N_icon_png>>, <<N_pass_json>>,
                 <<N_manifest>>, <<N_hidden>>,
                 <<N_hidden, N_icon_png, N_fr_lproj>>}}

\* ------------------------------------------------------------------- state

VARIABLES
  options,        \* the argument of createPass
  pc,             \* createPass: "idle", "awaiting", "settled"; "none" when
                  \* a pipeline is called on its own
  outcome,        \* what createPass resolved or rejected with
  mpc,            \* getModelContents: "idle", "readdir", "readfiles", "l10n", "done"
  modelPath,      \* const modelPath
  rawBundle,      \* const rawBundle, once the listing is read
  l10nFolders,    \* const l10nFolders, once the listing is read
  reads,          \* index in rawBundle -> buffer, for the reads that completed
  arrival,        \* the indices of rawBundle in the order their reads completed
  loc,            \* index in l10nFolders -> progress of that folder's promise
  larrival,       \* the indices of l10nFolders in the order they resolved
  mres,           \* what getModelContents resolved or rejected with
  cpc,            \* readCertificatesFromOptions: "idle", "reading", "done"
  creads,         \* index in Object.keys(flattenedDocs) -> text, once known
  carrival,       \* those indices in the order their promises settled
  cres,           \* what readCertificatesFromOptions resolved or rejected with
  disk,           \* path -> the result the file system gave for it
  issued          \* the file-system requests issued so far

modelVars ==
  <<mpc, modelPath, rawBundle, l10nFolders, reads, arrival, loc, larrival, mres>>

certVars == <<cpc, creads, carrival, cres>>

vars == <<options, pc, outcome, modelVars, certVars, disk, issued>>

\* options.model and options.certificates
Model == Prop(options, "model")

CertOptions == Prop(options, "certificates")

Request(op, path) == [op |-> op, path |-> path]

\* The directory entries the file system has shown so far, and the listings
\* a directory may still have within MaxNodes.
RECURSIVE SumEntries(_)
SumEntries(paths) ==
  IF paths = {} THEN 0
  ELSE LET p == CHOOSE q \in paths : TRUE
       IN  Len(disk[p].value) + SumEntries(paths \ {p})

NodesSeen ==
  SumEntries({r.path : r \in {q \in issued : /\ q.op = "readdir"
                                             /\ q.path \in DOMAIN disk
                                             /\ IsOk(disk[q.path])}})

\* --------------------------------------------- getModelContents: the steps

\* Object.assign({}, ...rawBundle.map((fileName, index) => ({ [fileName]: buffers[index] })))
Bundle(names, rs, arr) == AssignByIndex(names, rs, arr)

\* Object.assign({}, ...L10N_FilesListByFolder.map((folder, index) =>
\*   ({ [l10nFolders[index]]: folder })))
L10nBundle(names, folders, arr) ==
  AssignByIndex(names, [j \in DOMAIN folders |-> folders[j].value], arr)

\* getModelFolderContents returns and getModelContents checks what it got.
ReturnContents(bundle, l10nBundle) ==
  /\ mpc' = "done"
  /\ mres' = GateResult([bundle |-> bundle, l10nBundle |-> l10nBundle])

\* getModelFolderContents rejects with what its catch block throws.
RejectFolder(err) ==
  /\ mpc' = "done"
  /\ mres' = CatchFolderError(err)

FolderListing == [st |-> "listing", files |-> <<>>, bufs |-> <<>>, arr |-> <<>>,
                  value |-> <<>>]

\* The continuation of `await Promise.all(bundleBuffers)`: the bundle is
\* assembled and one readDir per localization folder is issued.
AfterBaseReads(dir, raw, folders, rs, arr, sent) ==
  /\ larrival' = <<>>
  /\ IF Len(folders) = 0
     THEN /\ ReturnContents(Bundle(raw, rs, arr), <<>>)
          /\ loc' = <<>>
          /\ issued' = issued \cup sent
     ELSE /\ mpc' = "l10n"
          /\ mres' = Pending
          /\ loc' = [j \in 1..Len(folders) |-> FolderListing]
          /\ issued' = issued \cup sent \cup
               {Request("readdir", Join(dir, folders[j])) : j \in 1..Len(folders)}

\* getModelContents(model) up to its first await.
StartModel(model, tdz) ==
  /\ rawBundle' = <<>>
  /\ l10nFolders' = <<>>
  /\ reads' = <<>>
  /\ arrival' = <<>>
  /\ loc' = <<>>
  /\ larrival' = <<>>
  /\ IF ~IsModelValid(model)
     THEN /\ mpc' = "done"
          /\ mres' = DomainError("MODEL_NOT_VALID", <<>>)
          /\ modelPath' = <<>>
     ELSE IF TypeOf(model) = "string"
          THEN /\ mpc' = "readdir"
               /\ mres' = Pending
               /\ modelPath' = ModelPath(model.v)
          ELSE /\ mpc' = "done"
               /\ modelPath' = <<>>
               /\ mres' = LET r == GetModelBufferContents(model, tdz)
                          IN  IF IsError(r) THEN r ELSE GateResult(r.value)

ModelRequests(model) ==
  IF IsModelValid(model) /\ TypeOf(model) = "string"
  THEN {Request("readdir", ModelPath(model.v))}
  ELSE {}

\* readDir(modelPath) completes: filter, check initialization, partition and
\* issue one readFile per base-bundle file.
ReadDirDoneStep(env) ==
  /\ mpc = "readdir"
  /\ \E o \in ReadDirOutcomes(modelPath, Listings(env.entries, MaxNodes),
                              env.dirCodes) :
       /\ disk' = (modelPath :> o) @@ disk
       /\ UNCHANGED modelPath
       /\ IF IsError(o)
          THEN /\ RejectFolder(o)
               /\ UNCHANGED <<rawBundle, l10nFolders, reads, arrival, loc,
                              larrival, issued>>
          ELSE LET files   == FilteredFiles(o.value)
                   raw     == RawBundle(files)
                   folders == L10nFolders(files)
                   sent    == {Request("readFile", Join(modelPath, raw[i])) :
                                 i \in 1..Len(raw)}
               IN  /\ reads' = <<>>
                   /\ arrival' = <<>>
                   /\ IF ~IsModelInitialized(files)
                      THEN /\ mpc' = "done"
                           /\ mres' = ThrowUninitializedFolder(Model.v)
                           /\ UNCHANGED <<rawBundle, l10nFolders, loc, larrival,
                                          issued>>
                      ELSE /\ rawBundle' = raw
                           /\ l10nFolders' = folders
                           /\ IF Len(raw) = 0
                              THEN AfterBaseReads(modelPath, raw, folders,
                                                  <<>>, <<>>, sent)
                              ELSE /\ mpc' = "readfiles"
                                   /\ mres' = Pending
                                   /\ issued' = issued \cup sent
                                   /\ UNCHANGED <<loc, larrival>>

\* One readFile of the base bundle completes.  A failure rejects the
\* Promise.all at once; the last success resumes the function.
FileReadDoneStep(env) ==
  /\ mpc = "readfiles"
  /\ \E i \in (1..Len(rawBundle)) \ DOMAIN reads :
     \E state \in env.fileStates :
       LET path == Join(modelPath, rawBundle[i])
           o    == ReadFileOutcome(path, state)
           rs   == (i :> o.value) @@ reads
           arr  == Append(arrival, i)
       IN  /\ disk' = (path :> o) @@ disk
           /\ UNCHANGED <<modelPath, rawBundle, l10nFolders>>
           /\ IF IsError(o)
              THEN /\ RejectFolder(o)
                   /\ UNCHANGED <<reads, arrival, loc, larrival, issued>>
              ELSE /\ reads' = rs
                   /\ arrival' = arr
                   /\ IF DOMAIN rs = 1..Len(rawBundle)
                      THEN AfterBaseReads(modelPath, rawBundle, l10nFolders,
                                          rs, arr, {})
                      ELSE /\ mpc' = "readfiles"
                           /\ mres' = Pending
                           /\ UNCHANGED <<loc, larrival, issued>>

\* The promise of folder j resolves; when it is the last one the outer
\* Promise.all resolves and the function returns.
ResolveFolder(j, files, bufs, arr, sent) ==
  LET value   == LocaleReduce(files, bufs, arr)
      folders == [loc EXCEPT ![j] = [st |-> "resolved", files |-> files,
                                     bufs |-> bufs, arr |-> arr, value |-> value]]
      order   == Append(larrival, j)
  IN  /\ loc' = folders
      /\ larrival' = order
      /\ issued' = issued \cup sent
      /\ IF \A k \in DOMAIN folders : folders[k].st = "resolved"
         THEN ReturnContents(Bundle(rawBundle, reads, arrival),
                             L10nBundle(l10nFolders, folders, order))
         ELSE mpc' = "l10n" /\ mres' = Pending

\* readDir of one localization folder completes.
LocaleReadDirDoneStep(env) ==
  /\ mpc = "l10n"
  /\ \E j \in DOMAIN loc :
       /\ loc[j].st = "listing"
       /\ LET currentLangPath == Join(modelPath, l10nFolders[j])
          IN  \E o \in ReadDirOutcomes(currentLangPath,
                                       Listings(env.inner, MaxNodes - NodesSeen),
                                       env.innerCodes) :
                /\ disk' = (currentLangPath :> o) @@ disk
                /\ UNCHANGED <<modelPath, rawBundle, l10nFolders, reads, arrival>>
                /\ IF IsError(o)
                   THEN /\ RejectFolder(o)
                        /\ UNCHANGED <<loc, larrival, issued>>
                   ELSE LET names      == RemoveHidden(o.value)
                            validFiles == [i \in 1..Len(names) |->
                                             Join(currentLangPath, names[i])]
                            sent       == {Request("readFile", validFiles[i]) :
                                             i \in 1..Len(validFiles)}
                        IN  IF Len(validFiles) = 0
                            THEN ResolveFolder(j, validFiles, <<>>, <<>>, sent)
                            ELSE /\ loc' = [loc EXCEPT ![j] =
                                              [st |-> "reading", files |-> validFiles,
                                               bufs |-> <<>>, arr |-> <<>>,
                                               value |-> <<>>]]
                                 /\ issued' = issued \cup sent
                                 /\ mpc' = "l10n"
                                 /\ mres' = Pending
                                 /\ UNCHANGED larrival

\* One readFile inside a localization folder completes; a failure is
\* replaced by Buffer.alloc(0).
LocaleFileReadDoneStep(env) ==
  /\ mpc = "l10n"
  /\ \E j \in DOMAIN loc :
       /\ loc[j].st = "reading"
       /\ \E k \in (1..Len(loc[j].files)) \ DOMAIN loc[j].bufs :
          \E state \in env.innerStates :
            LET path   == loc[j].files[k]
                o      == ReadFileOutcome(path, state)
                buffer == IF IsError(o) THEN <<>> ELSE o.value
                bufs   == (k :> buffer) @@ loc[j].bufs
                arr    == Append(loc[j].arr, k)
            IN  /\ disk' = (path :> o) @@ disk
                /\ UNCHANGED <<modelPath, rawBundle, l10nFolders, reads, arrival>>
                /\ IF DOMAIN bufs = 1..Len(loc[j].files)
                   THEN ResolveFolder(j, loc[j].files, bufs, arr, {})
                   ELSE /\ loc' = [loc EXCEPT ![j].bufs = bufs, ![j].arr = arr]
                        /\ mpc' = "l10n"
                        /\ mres' = Pending
                        /\ UNCHANGED <<larrival, issued>>

\* ------------------------------------------------------- trust material

\* Texts: two certificates, a plain private key, a private key encrypted
\* under the passphrase "pw", and a text that is no PEM message.
T_wwdr_cert   == <<"C","W">>
T_signer_cert == <<"C","S">>
T_plain_key   == <<"P","K">>
T_enc_key     == <<"E","K">>
T_garbage     == <<"X","X">>

\* Passphrases.
T_pw  == <<"p","w">>
T_bad == <<"n","o">>

\* Paths: three that exist and one that does not.
P_wwdr   == <<"w",".","p","e","m">>
P_signer == <<"c","/","s",".","p","e","m">>
P_key    == <<"k",".","p","e","m">>
P_none   == <<"d","/","n","o",".","p","e","m">>

\* forge.pem.decode: the type of the PEM message a text holds, or "none".
PemType(text) ==
  CASE text \in {T_wwdr_cert, T_signer_cert} -> "CERTIFICATE"
    [] text = T_plain_key                    -> "RSA PRIVATE KEY"
    [] text = T_enc_key                      -> "ENCRYPTED PRIVATE KEY"
    [] OTHER                                 -> "none"

Returned(v) == [r |-> "value", v |-> v]

ReturnedNull == [r |-> "null", v |-> <<>>]

Threw == [r |-> "throw", v |-> <<>>]

\* forge.pki.certificateFromPem(pem): throws unless the text is a PEM
\* message of type CERTIFICATE.
CertificateFromPem(text) ==
  IF PemType(text) = "CERTIFICATE"
  THEN Returned([is |-> "certificate", of |-> text])
  ELSE Threw

\* forge.pki.decryptRsaPrivateKey(pem, password): throws unless the text is a
\* PEM private key, returns null when an encrypted key does not decrypt under
\* the password, and returns the key otherwise.
DecryptRsaPrivateKey(text, password) ==
  CASE PemType(text) = "RSA PRIVATE KEY" ->
         Returned([is |-> "privateKey", of |-> text])
    [] PemType(text) = "ENCRYPTED PRIVATE KEY" ->
         IF password = T_pw
         THEN Returned([is |-> "privateKey", of |-> text])
         ELSE ReturnedNull
    [] OTHER -> Threw

\* parsePEM(pemName, element, passphrase)
ParsePEM(pemName, element, passphrase) ==
  IF pemName = "signerKey" /\ Truthy(passphrase)
  THEN DecryptRsaPrivateKey(element, passphrase.v)
  ELSE CertificateFromPem(element)

\* readFile(path.resolve(content), { encoding: "utf8" }) on the certificate
\* files that exist.
CertFileOutcome(path) ==
  CASE path = Resolve(P_wwdr)   -> Ok(T_wwdr_cert)
    [] path = Resolve(P_signer) -> Ok(T_signer_cert)
    [] path = Resolve(P_key)    -> Ok(T_enc_key)
    [] OTHER                    -> FsError("ENOENT", "open", path)

\* isValid(options, "certificatesSchema"): wwdr and signerCert are strings,
\* signerKey is a string or { keyFile: string, passphrase?: string }.
IsValidCertificates(o) ==
  /\ Range(ObjectKeys(o)) = {"wwdr", "signerCert", "signerKey"}
  /\ Len(ObjectKeys(o)) = 3
  /\ TypeOf(Prop(o, "wwdr")) = "string"
  /\ TypeOf(Prop(o, "signerCert")) = "string"
  /\ LET k == Prop(o, "signerKey")
     IN  \/ TypeOf(k) = "string"
         \/ /\ TypeOf(k) = "object"
            /\ TypeOf(Prop(k, "keyFile")) = "string"
            /\ TypeOf(Prop(k, "passphrase")) \in {"string", "undefined"}

\* !(options && Object.keys(options).length && isValid(options, ...))
HasCertificates(o) ==
  /\ Truthy(o)
  /\ TypeOf(o) = "object"
  /\ Len(ObjectKeys(o)) # 0
  /\ IsValidCertificates(o)

\* Object.assign({}, options, { signerKey: <text or keyFile> }): the keys
\* keep the order they have in options.
FlattenedDocs(o) ==
  [k \in Range(ObjectKeys(o)) |->
     IF k = "signerKey"
     THEN IF TypeOf(Prop(o, "signerKey")) = "string"
          THEN Prop(o, "signerKey").v
          ELSE Prop(Prop(o, "signerKey"), "keyFile").v
     ELSE Prop(o, k).v]

\* flattenedDocs[Object.keys(flattenedDocs)[index]]
DocAt(o, index) == FlattenedDocs(o)[ObjectKeys(o)[index]]

\* !!path.parse(content).ext
IsPath(content) == ExtName(content) # <<>>

\* typeof options.signerKey === "object" ? options.signerKey.passphrase : undefined
Passphrase(o) ==
  IF TypeOf(Prop(o, "signerKey")) = "object"
  THEN Prop(Prop(o, "signerKey"), "passphrase")
  ELSE Undefined

\* The certificate name the text at `index` is parsed and stored under.
CertNameAt(o, index) == ObjectKeys(o)[index]

\* parsedContents.map(...) and Object.assign: texts are parsed in index order;
\* the first one that throws, or parses to null, ends the function.
ParseContents(o, contents, order) ==
  LET n      == Len(ObjectKeys(o))
      pem(i) == ParsePEM(CertNameAt(o, i), AwaitedAt(contents, order, i),
                         Passphrase(o))
      bad    == {i \in 1..n : pem(i).r # "value"}
  IN  IF bad # {}
      THEN LET i == CHOOSE b \in bad : \A c \in bad : b <= c
           IN  IF pem(i).r = "throw"
               THEN Thrown("PemError")
               ELSE DomainError("INVALID_CERTS", CertNameAt(o, i))
      ELSE Ok([k \in Range(ObjectKeys(o)) |-> pem(IndexOf(ObjectKeys(o), k)).v])

\* The catch block of readCertificatesFromOptions.
CatchCertError(err) ==
  IF ~IsFsError(err)
  THEN err
  ELSE DomainError("INVALID_CERT_PATH", BaseName(err.arg))

\* The indices whose content is a path, and so is read from the file system.
PathIndices(o) == {i \in 1..Len(ObjectKeys(o)) : IsPath(DocAt(o, i))}

CertRequests(o) ==
  IF HasCertificates(o)
  THEN {Request("readFile", Resolve(DocAt(o, i))) : i \in PathIndices(o)}
  ELSE {}

\* readCertificatesFromOptions(options) up to its first await.  The contents
\* given as text are promises already resolved; they settle in index order.
StartCerts(o) ==
  IF ~HasCertificates(o)
  THEN /\ cpc' = "done"
       /\ cres' = DomainError("CP_NO_CERTS", <<>>)
       /\ creads' = <<>>
       /\ carrival' = <<>>
  ELSE LET n       == Len(ObjectKeys(o))
           literal == (1..n) \ PathIndices(o)
           texts   == [i \in literal |-> DocAt(o, i)]
           order   == SelectSeq([i \in 1..n |-> i], LAMBDA i : i \in literal)
       IN  /\ creads' = texts
           /\ carrival' = order
           /\ IF literal = 1..n
              THEN cpc' = "done" /\ cres' = CatchCertError(ParseContents(o, texts, order))
              ELSE cpc' = "reading" /\ cres' = Pending

\* One readFile of a certificate path completes.
CertReadDoneStep ==
  /\ cpc = "reading"
  /\ \E i \in (1..Len(ObjectKeys(CertOptions))) \ DOMAIN creads :
       LET path  == Resolve(DocAt(CertOptions, i))
           o     == CertFileOutcome(path)
           texts == (i :> o.value) @@ creads
           order == Append(carrival, i)
       IN  /\ disk' = (path :> o) @@ disk
           /\ cpc' = IF IsError(o) \/ DOMAIN texts = 1..Len(ObjectKeys(CertOptions))
                     THEN "done" ELSE "reading"
           /\ IF IsError(o)
              THEN /\ cres' = CatchCertError(o)
                   /\ UNCHANGED <<creads, carrival>>
              ELSE /\ creads' = texts
                   /\ carrival' = order
                   /\ cres' = IF DOMAIN texts = 1..Len(ObjectKeys(CertOptions))
                              THEN CatchCertError(ParseContents(CertOptions, texts, order))
                              ELSE Pending

\* -------------------------------------------------------------- createPass

\* HasOptions without the test on the number of keys.
HasOptionsTruthyOnly(o) == Truthy(o)

\* !(options && Object.keys(options).length)
HasOptions(o) == Truthy(o) /\ Len(ObjectKeys(o)) # 0

\* new Pass({ model: bundle, certificates, overrides: options.overrides })
NewPass(bundle, certificates, overrides) ==
  [kind |-> "pass", model |-> bundle, certificates |-> certificates,
   overrides |-> overrides]

InitError == DomainError("CP_INIT_ERROR", <<>>)

\* The try/catch around `await Promise.all([...])` and `new Pass(...)`, run
\* as soon as the two promises allow: the first rejection, or an exception
\* of the Pass constructor, becomes CP_INIT_ERROR; two fulfilments become
\* the Pass.
Settlement(awaiting, m, c) ==
  IF ~awaiting
  THEN UNCHANGED <<pc, outcome>>
  ELSE IF IsError(m) \/ IsError(c)
       THEN pc' = "settled" /\ outcome' = InitError
       ELSE IF IsOk(m) /\ IsOk(c)
            THEN /\ pc' = "settled"
                 /\ outcome' \in {NewPass(m.value, c.value, Prop(options, "overrides")),
                                  InitError}
            ELSE pc' = "awaiting" /\ outcome' = Pending

\* createPass(options) up to the first await of either pipeline.
CreatePass ==
  /\ pc = "idle"
  /\ UNCHANGED <<options, disk>>
  /\ IF ~HasOptions(options)
     THEN /\ pc' = "settled"
          /\ outcome' = DomainError("CP_NO_OPTS", <<>>)
          /\ UNCHANGED <<modelVars, certVars, issued>>
     ELSE /\ \E tdz \in TdzErrors : StartModel(Model, tdz)
          /\ StartCerts(CertOptions)
          /\ issued' = issued \cup ModelRequests(Model) \cup CertRequests(CertOptions)
          /\ Settlement(TRUE, mres', cres')

\* getModelContents(model) called on its own.
GetModelContents ==
  /\ pc = "none"
  /\ mpc = "idle"
  /\ \E tdz \in TdzErrors : StartModel(Model, tdz)
  /\ issued' = issued \cup ModelRequests(Model)
  /\ UNCHANGED <<options, pc, outcome, certVars, disk>>

\* readCertificatesFromOptions(options) called on its own.
ReadCertificatesFromOptions ==
  /\ pc = "none"
  /\ cpc = "idle"
  /\ StartCerts(CertOptions)
  /\ issued' = issued \cup CertRequests(CertOptions)
  /\ UNCHANGED <<options, pc, outcome, modelVars, disk>>

\* The completions of the requests, each with the continuations it resumes.
ReadDirDone(env) ==
  /\ ReadDirDoneStep(env)
  /\ UNCHANGED <<options, certVars>>
  /\ Settlement(pc = "awaiting", mres', cres')

FileReadDone(env) ==
  /\ FileReadDoneStep(env)
  /\ UNCHANGED <<options, certVars>>
  /\ Settlement(pc = "awaiting", mres', cres')

LocaleReadDirDone(env) ==
  /\ LocaleReadDirDoneStep(env)
  /\ UNCHANGED <<options, certVars>>
  /\ Settlement(pc = "awaiting", mres', cres')

LocaleFileReadDone(env) ==
  /\ LocaleFileReadDoneStep(env)
  /\ UNCHANGED <<options, certVars>>
  /\ Settlement(pc = "awaiting", mres', cres')

CertReadDone ==
  /\ CertReadDoneStep
  /\ UNCHANGED <<options, modelVars, issued>>
  /\ Settlement(pc = "awaiting", mres', cres')

\* ------------------------------------------------------------------ inputs

CertKeyOrders ==
  {<<"wwdr", "signerCert", "signerKey">>, <<"signerKey", "wwdr", "signerCert">>}

\* The forms options.signerKey can take for a key text or path k.
SignerKeyForms(k, passphrases) ==
  {Str(k), Obj(<<"keyFile">>, [keyFile |-> Str(k)])}
  \cup {Obj(<<"keyFile", "passphrase">>, [keyFile |-> Str(k), passphrase |-> Str(p)]) :
          p \in passphrases}

CertSpecs(wwdrs, signerCerts, signerKeys, passphrases) ==
  {Obj(order, [wwdr |-> Str(w), signerCert |-> Str(c), signerKey |-> k]) :
     order \in CertKeyOrders, w \in wwdrs, c \in signerCerts,
     k \in UNION {SignerKeyForms(t, passphrases) : t \in signerKeys}}

\* Specifications that no schema accepts.
NoCertSpecs == {Undefined, EmptyObj, Obj(<<"wwdr">>, [wwdr |-> Str(T_wwdr_cert)])}

AllCertSpecs ==
  NoCertSpecs \cup
  CertSpecs({T_wwdr_cert, T_garbage, T_plain_key, P_wwdr, P_none},
            {T_signer_cert, T_garbage, P_signer, P_none},
            {T_plain_key, T_enc_key, T_garbage, T_signer_cert, P_key, P_none},
            {T_pw, T_bad})

\* The state before any call.
Idle ==
  /\ outcome = Pending
  /\ mpc = "idle"
  /\ modelPath = <<>>
  /\ rawBundle = <<>>
  /\ l10nFolders = <<>>
  /\ reads = <<>>
  /\ arrival = <<>>
  /\ loc = <<>>
  /\ larrival = <<>>
  /\ mres = Pending
  /\ cpc = "idle"
  /\ creads = <<>>
  /\ carrival = <<>>
  /\ cres = Pending
  /\ disk = <<>>
  /\ issued = {}

\* ------------------------------------------- the Source Normalizer alone

InitModel ==
  /\ options \in {Obj(<<"model">>, [model |-> m]) : m \in ModelSources}
  /\ pc = "none"
  /\ Idle

NextModel ==
  \/ GetModelContents
  \/ ReadDirDone(ModelEnv)
  \/ FileReadDone(ModelEnv)
  \/ LocaleReadDirDone(ModelEnv)
  \/ LocaleFileReadDone(ModelEnv)

SpecModel == InitModel /\ [][NextModel]_vars

\* --------------------------------------------- the Trust Resolver alone

InitCerts ==
  /\ options \in {Obj(<<"certificates">>, [certificates |-> c]) : c \in AllCertSpecs}
  /\ pc = "none"
  /\ Idle

NextCerts ==
  \/ ReadCertificatesFromOptions
  \/ CertReadDone

SpecCerts == InitCerts /\ [][NextCerts]_vars

\* ------------------------------------------------- createPass as a whole

\* The file systems explored under createPass, where the two pipelines run
\* side by side.
CreateEnv ==
  [entries     |-> <<N_en_lproj, N_fr_lproj, N_icon_png, N_pass_json>>,
   dirCodes    |-> {"ENOENT"},
   fileStates  |-> {"data", "ENOENT"},
   inner       |-> <<N_strings>>,
   innerCodes  |-> {"ENOTDIR"},
   innerStates |-> {"data", "ENOENT"}]

Overrides == Obj(<<"serialNumber">>, [serialNumber |-> Str(<<"1">>)])

CreateModels ==
  {Undefined, Str(S_Model),
   Obj(<<N_pass_json, N_icon_png>>,
       [n \in {N_pass_json, N_icon_png} |-> DataOf(n)])}

CreateCertSpecs ==
  {Undefined} \cup
  CertSpecs({T_wwdr_cert, P_wwdr}, {T_signer_cert, P_none},
            {T_enc_key, P_key}, {T_pw})

CreateOptions ==
  {Undefined, EmptyObj}
  \cup {Obj(<<"model", "certificates", "overrides">>,
            [model |-> m, certificates |-> c, overrides |-> Overrides]) :
          m \in CreateModels, c \in CreateCertSpecs}

Init ==
  /\ options \in CreateOptions
  /\ pc = "idle"
  /\ Idle

Next ==
  \/ CreatePass
  \/ ReadDirDone(CreateEnv)
  \/ FileReadDone(CreateEnv)
  \/ LocaleReadDirDone(CreateEnv)
  \/ LocaleFileReadDone(CreateEnv)
  \/ CertReadDone

Spec == Init /\ [][Next]_vars

\* ========================================================== the properties

\* What the file system showed, read back from `disk`.
DirSource == IsModelValid(Model) /\ TypeOf(Model) = "string"

BufferSource == IsModelValid(Model) /\ TypeOf(Model) = "object"

Seen(path) == path \in DOMAIN disk

Readable(path) == Seen(path) /\ IsOk(disk[path])

HasData(path) == Readable(path) /\ Len(disk[path].value) # 0

Listed == DirSource /\ Readable(modelPath)

Visible(names) == {n \in Range(names) : n[1] # "."}

\* The names of the listing that are neither hidden nor manifest/signature.
Candidates == {n \in Visible(disk[modelPath].value) : ~TestManifestSignatureI(n)}

BaseNames == {n \in Candidates : ~Includes(n, S_lproj)}

LocaleNames == {n \in Candidates : Includes(n, S_lproj)}

Initialized ==
  /\ Candidates # {}
  /\ \E n \in Candidates : Includes(ToLowerCase(n), S_icon)

\* The visible file names of a localization folder whose listing was read.
FolderNames(folder) == Visible(disk[Join(modelPath, folder)].value)

InnerPath(folder, name) == Join(Join(modelPath, folder), name)

\* Every base-bundle file and every localization folder could be read.
AllBaseReadable == \A n \in BaseNames : Readable(Join(modelPath, n))

AllFoldersReadable == \A f \in LocaleNames : Readable(Join(modelPath, f))

\* The base bundle of the source: each base name with the bytes of its file.
OwnBundle == [n \in BaseNames |-> disk[Join(modelPath, n)].value]

\* The contents of one folder keyed by file name, and keyed by the path the
\* file was read from.
OwnFolderByName(folder) ==
  [n \in {m \in FolderNames(folder) : HasData(InnerPath(folder, m))} |->
     disk[InnerPath(folder, n)].value]

OwnFolderByPath(folder) ==
  [p \in {InnerPath(folder, m) :
            m \in {k \in FolderNames(folder) : HasData(InnerPath(folder, k))}} |->
     disk[p].value]

\* C1: a listed directory with a non-empty pass.json, a non-empty icon file
\* and readable files and folders is normalized into bundle = its base
\* entries with their bytes and l10nBundle = one key per locale folder, each
\* mapped to that folder's files keyed by file name.
C1_FolderContentsByFileName ==
  ( /\ mpc = "done"
    /\ Listed
    /\ HasData(Join(modelPath, S_pass_json)) /\ S_pass_json \in BaseNames
    /\ \E n \in BaseNames : Includes(n, S_icon) /\ HasData(Join(modelPath, n))
    /\ AllBaseReadable
    /\ AllFoldersReadable )
  => /\ IsOk(mres)
     /\ mres.value.bundle = OwnBundle
     /\ DOMAIN mres.value.l10nBundle = LocaleNames
     /\ \A f \in LocaleNames : mres.value.l10nBundle[f] = OwnFolderByName(f)

\* C2: every PartitionedBundle that getModelContents returns has no key
\* containing ".lproj" in its bundle, a non-empty pass.json, and a non-empty
\* entry whose name contains "icon".
C2_ReturnedBundleIsValid ==
  IsOk(mres) =>
    LET bundle == mres.value.bundle
    IN  /\ \A n \in DOMAIN bundle : ~Includes(n, S_lproj)
        /\ S_pass_json \in DOMAIN bundle
        /\ Len(bundle[S_pass_json]) # 0
        /\ \E n \in DOMAIN bundle : Includes(n, S_icon) /\ Len(bundle[n]) # 0

\* C2 witness: a directory holding a localization folder was normalized.
C2_Witness ==
  /\ IsOk(mres)
  /\ DirSource
  /\ LocaleNames # {}
  /\ \E n \in BaseNames : ~HasData(Join(modelPath, n))

\* The paths of the files of folder j whose read failed or gave no bytes, and
\* of those that gave bytes.
FolderKept(j) == {p \in Range(loc[j].files) : HasData(p)}

FolderDropped(j) == {p \in Range(loc[j].files) : Seen(p) /\ ~HasData(p)}

\* C4: a localization folder whose files are a mix of readable, unreadable
\* and empty ones still resolves, to exactly its readable non-empty visible
\* files, never to a zero-length value, and the failed read is not what the
\* call fails with; a base-bundle file whose read fails always fails the
\* whole call, with the error of that read.
C4_LocaleReadsSwallowedBaseReadsFatal ==
  /\ \A j \in DOMAIN loc :
       loc[j].st = "reading" => \E p \in Range(loc[j].files) : ~Seen(p)
  /\ \A j \in DOMAIN loc :
       loc[j].st = "resolved" =>
         /\ DOMAIN loc[j].value = FolderKept(j)
         /\ \A p \in FolderKept(j) :
              loc[j].value[p] = disk[p].value /\ Len(loc[j].value[p]) # 0
         /\ Range(loc[j].files) =
              {InnerPath(l10nFolders[j], n) : n \in FolderNames(l10nFolders[j])}
         /\ \A p \in FolderDropped(j) :
              ~(IsError(mres) /\ mres.arg = p)
  /\ (mpc = "done" /\ loc # <<>> /\ \A j \in DOMAIN loc : loc[j].st = "resolved")
       => /\ mres \in {Ok(c) : c \in {[bundle |-> OwnBundle,
                                      l10nBundle |-> [j \in Range(l10nFolders) |->
                                         loc[IndexOf(l10nFolders, j)].value]]}}
                  \cup {DomainError("missing icon or pass.json", <<>>)}
          /\ IsOk(mres) = FinalGate(OwnBundle)
  /\ \A i \in DOMAIN rawBundle :
       LET path == Join(modelPath, rawBundle[i])
       IN  (Seen(path) /\ IsError(disk[path])) =>
             /\ mpc = "done"
             /\ IsError(mres)
             /\ mres \in {disk[path],
                          DomainError("MODELF_NOT_FOUND", path)}

\* C4 witness: a folder resolved although one of its two files could not be
\* read or was empty.
C4_Witness ==
  \E j \in DOMAIN loc :
    /\ loc[j].st = "resolved"
    /\ FolderKept(j) # {}
    /\ \E p \in FolderDropped(j) : IsError(disk[p])
    /\ IsOk(mres)

\* C5: an in-memory file map holding a non-empty pass.json and a non-empty
\* icon file is normalized, without any file-system request, into a bundle
\* of exactly its visible, non-manifest/signature, non-.lproj entries; a map
\* with no entry left, or with no icon-named entry, fails with
\* MODEL_UNINITIALIZED labelled "Buffers".
BufferKeys ==
  {k \in Visible(ObjectKeys(Model)) : ~TestManifestSignatureI(k)}

C5_BufferSourceNormalized ==
  (BufferSource /\ mpc = "done") =>
    /\ issued = {}
    /\ IF /\ S_pass_json \in BufferKeys /\ Len(Model.at[S_pass_json]) # 0
          /\ \E k \in BufferKeys : Includes(k, S_icon) /\ Len(Model.at[k]) # 0
       THEN /\ IsOk(mres)
            /\ mres.value.bundle =
                 [k \in {b \in BufferKeys : ~Includes(b, S_lproj)} |-> Model.at[k]]
       ELSE (BufferKeys = {} \/ \A k \in BufferKeys : ~Includes(ToLowerCase(k), S_icon))
              => mres = DomainError("MODEL_UNINITIALIZED", S_Buffers)

\* C6: a directory that can be listed but whose filtered listing is empty or
\* holds no name containing "icon" in any letter case fails with
\* MODEL_UNINITIALIZED carrying the name of the source.
C6_UninitializedFolder ==
  (mpc = "done" /\ Listed /\ ~Initialized) =>
    mres = DomainError("MODEL_UNINITIALIZED", ParsedName(Model.v))

\* The paths whose failure is not swallowed: the model directory, the
\* localization folders and the base-bundle files.
FatalPaths ==
  {modelPath}
  \cup {Join(modelPath, rawBundle[i]) : i \in DOMAIN rawBundle}
  \cup {Join(modelPath, l10nFolders[j]) : j \in DOMAIN l10nFolders}

\* C7: whenever a listing or a base-bundle read failed, with any error code,
\* getModelFolderContents fails with one of the two domain errors, naming the
\* path, and never with the error of the file system itself.
C7_IoErrorsTranslated ==
  \A p \in FatalPaths :
    (Seen(p) /\ IsError(disk[p])) =>
      /\ mpc = "done"
      /\ ~IsFsError(mres)
      /\ \/ disk[p].syscall = "open"
            /\ mres = DomainError("MODELF_NOT_FOUND", p)
         \/ disk[p].syscall # "open"
            /\ mres = DomainError("MODELF_FILE_NOT_FOUND", BaseName(p))

\* C7, amended: a listing or a base-bundle read that failed with ENOENT makes
\* getModelFolderContents fail with a domain error, MODELF_NOT_FOUND naming
\* the path for a failed open and MODELF_FILE_NOT_FOUND naming the last path
\* component for a failed listing; a failure with any other code is
\* rethrown as it is.
C7_NotFoundErrorsTranslated ==
  \A p \in FatalPaths :
    (Seen(p) /\ IsError(disk[p])) =>
      /\ mpc = "done"
      /\ IF disk[p].code = "ENOENT"
         THEN /\ ~IsFsError(mres)
              /\ \/ disk[p].syscall = "open"
                    /\ mres = DomainError("MODELF_NOT_FOUND", p)
                 \/ disk[p].syscall = "scandir"
                    /\ mres = DomainError("MODELF_FILE_NOT_FOUND", BaseName(p))
         ELSE mres = disk[p]

\* C7 witness: a localization folder that could not be listed, after the
\* base bundle was read, was reported as a domain error.
C7_Witness ==
  \E j \in DOMAIN l10nFolders :
    LET p == Join(modelPath, l10nFolders[j])
    IN  /\ Seen(p) /\ IsError(disk[p]) /\ disk[p].code = "ENOENT"
        /\ mres = DomainError("MODELF_FILE_NOT_FOUND", l10nFolders[j])
        /\ rawBundle # <<>>

\* C10: a directory with a non-empty pass.json and a non-empty file whose
\* name contains "icon" in upper or mixed case, all of whose reads succeed,
\* is accepted.
C10_IconMatchedInAnyCase ==
  ( /\ mpc = "done"
    /\ Listed
    /\ Initialized
    /\ AllBaseReadable
    /\ AllFoldersReadable
    /\ S_pass_json \in BaseNames /\ HasData(Join(modelPath, S_pass_json))
    /\ \E n \in BaseNames :
         Includes(ToLowerCase(n), S_icon) /\ HasData(Join(modelPath, n)) )
  => IsOk(mres)

\* ------------------------------------------------ properties: certificates

\* The text a certificate field stands for: the content of its file when it
\* is a path, itself otherwise.
FieldDoc(k) ==
  IF k = "signerKey" /\ TypeOf(Prop(CertOptions, k)) = "object"
  THEN Prop(Prop(CertOptions, k), "keyFile").v
  ELSE Prop(CertOptions, k).v

FieldIsPath(k) == ExtName(FieldDoc(k)) # <<>>

FieldPath(k) == Resolve(FieldDoc(k))

FieldText(k) == IF FieldIsPath(k) THEN disk[FieldPath(k)].value ELSE FieldDoc(k)

CertNames == {"wwdr", "signerCert", "signerKey"}

\* C8: on a schema-valid specification, readCertificatesFromOptions fails
\* only with INVALID_CERT_PATH naming the base name of an unreadable path, or
\* with INVALID_CERTS naming the field whose text could not be parsed.
C8_CertificateErrorsAreDomainErrors ==
  (cpc = "done" /\ HasCertificates(CertOptions) /\ IsError(cres)) =>
    \/ /\ cres.name = "INVALID_CERT_PATH"
       /\ \E k \in CertNames :
            /\ FieldIsPath(k)
            /\ Seen(FieldPath(k)) /\ IsError(disk[FieldPath(k)])
            /\ cres.arg = BaseName(FieldDoc(k))
    \/ /\ cres.name = "INVALID_CERTS"
       /\ cres.arg \in CertNames

\* -------------------------------------------------- properties: createPass

OptionsAbsentOrEmpty ==
  TypeOf(options) = "undefined" \/ DOMAIN options.at = {}

\* C3: createPass ends in exactly one of three ways: CP_NO_OPTS when the
\* options are absent or empty, before any request to the file system;
\* CP_INIT_ERROR as soon as either pipeline has failed, whatever the failure;
\* a Pass of {model, certificates, overrides}, and then both pipelines have
\* succeeded.
C3_CreatePassOutcomes ==
  /\ pc \in {"idle", "awaiting", "settled"}
  /\ pc = "settled" =>
       \/ /\ outcome = DomainError("CP_NO_OPTS", <<>>)
          /\ OptionsAbsentOrEmpty
       \/ /\ outcome = DomainError("CP_INIT_ERROR", <<>>)
          /\ ~OptionsAbsentOrEmpty
       \/ /\ outcome.kind = "pass"
          /\ ~OptionsAbsentOrEmpty
          /\ IsOk(mres) /\ IsOk(cres)
          /\ outcome.model = mres.value
          /\ outcome.certificates = cres.value
          /\ outcome.overrides = options.at["overrides"]
  /\ OptionsAbsentOrEmpty =>
       /\ issued = {} /\ disk = <<>> /\ mpc = "idle" /\ cpc = "idle"
       /\ pc = "settled" => outcome = DomainError("CP_NO_OPTS", <<>>)
  /\ (IsError(mres) \/ IsError(cres)) =>
       pc = "settled" /\ outcome = DomainError("CP_INIT_ERROR", <<>>)
  /\ pc # "settled" => outcome = Pending

\* C3 witness: a Pass was built from a directory and from certificates read
\* from files.
C3_Witness ==
  /\ outcome.kind = "pass"
  /\ DirSource
  /\ LocaleNames # {}
  /\ \E k \in CertNames : FieldIsPath(k)

\* C9: whatever the order in which the reads and listings complete, each
\* base-bundle name maps to the bytes of its own file, each l10nBundle key to
\* the contents of its own folder, and each of wwdr, signerCert, signerKey to
\* the parse of its own text, the passphrase being applied to signerKey only;
\* a parse failure is the failure of some field's own text.
OwnParse(k) ==
  IF k = "signerKey" /\ Truthy(Passphrase(CertOptions))
  THEN DecryptRsaPrivateKey(FieldText(k), Passphrase(CertOptions).v)
  ELSE CertificateFromPem(FieldText(k))

AllCertsRead ==
  /\ cpc = "done"
  /\ HasCertificates(CertOptions)
  /\ \A k \in CertNames : FieldIsPath(k) => Readable(FieldPath(k))

C9_ResultsIndependentOfCompletionOrder ==
  /\ (DirSource /\ IsOk(mres)) =>
       /\ mres.value.bundle = OwnBundle
       /\ DOMAIN mres.value.l10nBundle = LocaleNames
       /\ \A f \in LocaleNames : mres.value.l10nBundle[f] = OwnFolderByPath(f)
  /\ (DirSource /\ mpc = "done" /\ Listed /\ Initialized
        /\ AllBaseReadable /\ AllFoldersReadable) =>
       IsOk(mres) = FinalGate(OwnBundle)
  /\ AllCertsRead =>
       /\ IsOk(cres) = (\A k \in CertNames : OwnParse(k).r = "value")
       /\ IsOk(cres) => \A k \in CertNames : cres.value[k] = OwnParse(k).v

\* C9 witness: a Pass was built although the base-bundle reads, the folders
\* and the certificate reads all completed in the reverse of their order of
\* issue.
C9_Witness ==
  /\ outcome.kind = "pass"
  /\ arrival = <<2, 1>>
  /\ larrival = <<2, 1>>
  /\ \E i \in 1..2 : carrival[i] > carrival[i + 1]
  /\ \E f \in LocaleNames : DOMAIN mres.value.l10nBundle[f] # {}

====
